---- MODULE Spec2Model ----
(***************************************************************************)
(* Model of the static-site builder (build.py) and of the polling change   *)
(* watcher (watch_build.py).                                               *)
(*                                                                         *)
(* Text is a sequence of one-character strings.  A path is a sequence of   *)
(* path segments, each segment a text; paths are relative to the project   *)
(* root (ROOT in build.py, the working directory of watch_build.py).       *)
(***************************************************************************)
EXTENDS Integers, Sequences, FiniteSets, TLC

(***************************************************************************)
(* Characters and str methods                                              *)
(***************************************************************************)

\* The characters of the model in code-point order (str comparison order).
ASCII ==
    <<"\n", " ", "-", ".", "/",
      "A", "B", "C", "D", "E", "F", "G", "H", "I", "J", "K", "L", "M",
      "N", "O", "P", "Q", "R", "S", "T", "U", "V", "W", "X", "Y", "Z", "_",
      "a", "b", "c", "d", "e", "f", "g", "h", "i", "j", "k", "l", "m",
      "n", "o", "p", "q", "r", "s", "t", "u", "v", "w", "x", "y", "z">>

UPPER ==
    <<"A", "B", "C", "D", "E", "F", "G", "H", "I", "J", "K", "L", "M",
      "N", "O", "P", "Q", "R", "S", "T", "U", "V", "W", "X", "Y", "Z">>

LOWER ==
    <<"a", "b", "c", "d", "e", "f", "g", "h", "i", "j", "k", "l", "m",
      "n", "o", "p", "q", "r", "s", "t", "u", "v", "w", "x", "y", "z">>

Range(s) == {s[i] : i \in 1..Len(s)}

IndexIn(c, s) == CHOOSE i \in 1..Len(s) : s[i] = c

\* ord(c), up to an order-preserving renumbering
Ord(c) == IndexIn(c, ASCII)

IsUpper(c) == c \in Range(UPPER)
IsLower(c) == c \in Range(LOWER)
IsCased(c) == IsUpper(c) \/ IsLower(c)
IsSpace(c) == c \in {" ", "\n"}

ToUpper(c) == IF IsLower(c) THEN UPPER[IndexIn(c, LOWER)] ELSE c
ToLower(c) == IF IsUpper(c) THEN LOWER[IndexIn(c, UPPER)] ELSE c

\* s < t for str: lexicographic by code point
RECURSIVE StrLess(_, _)
StrLess(s, t) ==
    IF t = <<>> THEN FALSE
    ELSE IF s = <<>> THEN TRUE
    ELSE IF s[1] # t[1] THEN Ord(s[1]) < Ord(t[1])
    ELSE StrLess(Tail(s), Tail(t))

\* s.replace(a, b) for one-character a and b
Replace(s, a, b) == [i \in 1..Len(s) |-> IF s[i] = a THEN b ELSE s[i]]

\* s.title(): a cased character is upper-cased when the character before it
\* is not cased (or there is none), lower-cased otherwise
StrTitle(s) ==
    [i \in 1..Len(s) |->
        IF i > 1 /\ IsCased(s[i - 1]) THEN ToLower(s[i]) ELSE ToUpper(s[i])]

\* s.strip()
RECURSIVE LStrip(_)
LStrip(s) == IF s # <<>> /\ IsSpace(s[1]) THEN LStrip(Tail(s)) ELSE s

RECURSIVE RStrip(_)
RStrip(s) ==
    IF s # <<>> /\ IsSpace(s[Len(s)]) THEN RStrip(SubSeq(s, 1, Len(s) - 1)) ELSE s

Strip(s) == RStrip(LStrip(s))

\* s.split("-", 1)[0]: the text before the first dash, all of s without one
BeforeFirstDash(s) ==
    IF \E i \in 1..Len(s) : s[i] = "-"
    THEN LET k == CHOOSE i \in 1..Len(s) :
                      s[i] = "-" /\ \A j \in 1..(i - 1) : s[j] # "-"
         IN  SubSeq(s, 1, k - 1)
    ELSE s

\* sep.join(parts) for texts
RECURSIVE Join(_, _)
Join(sep, parts) ==
    IF parts = <<>> THEN <<>>
    ELSE IF Len(parts) = 1 THEN parts[1]
    ELSE parts[1] \o sep \o Join(sep, Tail(parts))

IsPrefix(p, q) == Len(p) <= Len(q) /\ SubSeq(q, 1, Len(p)) = p

EndsWith(s, suf) ==
    Len(suf) <= Len(s) /\ SubSeq(s, Len(s) - Len(suf) + 1, Len(s)) = suf

(***************************************************************************)
(* Names and paths                                                         *)
(***************************************************************************)

T_pages == <<"p", "a", "g", "e", "s">>
T_static == <<"s", "t", "a", "t", "i", "c">>
T_build == <<"b", "u", "i", "l", "d">>
T_pycache == <<"_", "_", "p", "y", "c", "a", "c", "h", "e", "_", "_">>
T_dot_html == <<".", "h", "t", "m", "l">>
T_index_html == <<"i", "n", "d", "e", "x">> \o T_dot_html
T_about_html == <<"a", "b", "o", "u", "t">> \o T_dot_html
T_post_html == <<"p", "o", "s", "t">> \o T_dot_html
T_blog == <<"b", "l", "o", "g">>
T_styles_css == <<"s", "t", "y", "l", "e", "s", ".", "c", "s", "s">>
T_notes_txt == <<"n", "o", "t", "e", "s", ".", "t", "x", "t">>
T_about == <<"a", "b", "o", "u", "t">>
T_projects == <<"p", "r", "o", "j", "e", "c", "t", "s">>
T_fun == <<"f", "u", "n">>

\* Mutant: the output directory put under the pages root
BUILD_DIR_UnderPages == <<T_pages, <<"o", "u", "t">>>>

\* build.py:22-25
BUILD_DIR == <<T_build>>
PAGES_DIR == <<T_pages>>
STATIC_DIR == <<T_static>>

\* watch_build.py:14
WATCH_DIRS == <<T_pages, T_static>>

\* watch_build.py:25, the directory names os.walk is told not to enter
SKIPPED_DIR_NAMES == {T_build, T_pycache}

\* A strict path under directory d
Under(d, p) == Len(p) > Len(d) /\ IsPrefix(d, p)

\* Path.__lt__: the segment lists compared lexicographically
RECURSIVE PathLess(_, _)
PathLess(p, q) ==
    IF q = <<>> THEN FALSE
    ELSE IF p = <<>> THEN TRUE
    ELSE IF p[1] # q[1] THEN StrLess(p[1], q[1])
    ELSE PathLess(Tail(p), Tail(q))

\* sorted(S) for a set of paths
RECURSIVE Sorted(_)
Sorted(S) ==
    IF S = {} THEN <<>>
    ELSE LET m == CHOOSE x \in S : \A y \in S \ {x} : PathLess(x, y)
         IN  <<m>> \o Sorted(S \ {m})

\* Path.with_suffix("") on the last segment: the name up to its last dot, when
\* that dot is neither the first nor the last character
Stem(name) ==
    LET dots == {i \in 1..Len(name) : name[i] = "."}
    IN  IF dots = {} THEN name
        ELSE LET k == CHOOSE i \in dots : \A j \in dots : j <= i
             IN  IF k > 1 /\ k < Len(name) THEN SubSeq(name, 1, k - 1) ELSE name

\* Path.as_posix()
AsPosix(p) == Join(<<"/">>, p)

(***************************************************************************)
(* State                                                                   *)
(***************************************************************************)

VARIABLES
    fs,          \* the files: path -> [data, mtime, gen]
    dirs,        \* the top-level directories that exist
    now,         \* the file system's clock, the source of modification times
    year,        \* datetime.now().year
    bpc,         \* the Builder process: idle, clean, copy, render, exited, killed
    exitCode,    \* exit code of the last Builder process
    err,         \* the exception that ended it, "" for none
    discovered,  \* render_pages: discovered
    nav_links,   \* render_pages: nav_links
    builds,      \* number of Builder processes started so far
    wpc,         \* the Watcher: start, sleeping, building, stopped, crashed
    prev,        \* main: prev
    lastLog,     \* the last line the Watcher printed
    lastExit,    \* run_build's last return value, -1 before the first
    touched,     \* history: the edits since the Watcher's last snapshot
    trigger,     \* history: the edits that the last poll found
    sinceStart,  \* history: no input changed since the last Builder start
    sincePrev,   \* history: nor since the Builder start before it
    lastRun,     \* history: the output, year and exit code of the last finished build
    prevRun,     \* history: those of the build before it
    pairOK       \* history: the last two builds ran in succession on unchanged inputs

vars ==
    <<fs, dirs, now, year, bpc, exitCode, err, discovered, nav_links, builds,
      wpc, prev, lastLog, lastExit, touched, trigger, sinceStart, sincePrev, lastRun,
      prevRun, pairOK>>

builderVars == <<bpc, exitCode, err, discovered, nav_links, builds>>
watcherVars == <<wpc, prev, lastLog, lastExit>>
runVars == <<sinceStart, sincePrev, lastRun, prevRun, pairOK>>

FilesUnder(f, d) == {p \in DOMAIN f : Under(d, p)}

\* A file with content data, written at time t; gen is, for a file of the
\* output directory, the number of Builder processes started before it was
\* written (provenance, not content)
File(data, t, g) == [data |-> data, mtime |-> t, gen |-> g]

\* f with path p set to file x
Put(f, p, x) == [q \in DOMAIN f \cup {p} |-> IF q = p THEN x ELSE f[q]]

\* f without the paths in S
Without(f, S) == [q \in DOMAIN f \ S |-> f[q]]

(***************************************************************************)
(* build.py                                                                *)
(***************************************************************************)

\* A page source is a sequence of characters and template tags.  BLOCK_TITLE is
\* any tag the pattern {%\s*block\s+title\s*%} matches, ENDBLOCK any tag
\* {%\s*endblock\s*%} matches.
BLOCK_TITLE == "{% block title %}"
ENDBLOCK == "{% endblock %}"

\* Python's None; no text, since every element of a text is one character
None == <<"None">>

\* bool(x) of an optional text
Truthy(x) == x # None /\ x # <<>>

\* build.py:56-60
NAV_ICONS ==
    [s \in {T_about, T_projects, T_fun} |->
        IF s = T_about THEN <<"U+1F464">>
        ELSE IF s = T_projects THEN <<"U+1F6E0">>
        ELSE <<"U+1F3AE">>]

\* NAV_ICONS.get(slug, "")
NavIcon(slug) == IF slug \in DOMAIN NAV_ICONS THEN NAV_ICONS[slug] ELSE <<>>

\* Mutant: mkdir without rmtree
CleanBuildDirectory_MkdirOnly(f) == f

\* clean_build_directory: the files after rmtree and mkdir
CleanBuildDirectory(f) == Without(f, FilesUnder(f, BUILD_DIR))

\* copy_static_files: the files copytree writes (copy2 keeps the times), g the
\* number of the build that writes them
CopiedStatic(f, g) ==
    LET src == FilesUnder(f, STATIC_DIR)
        target(p) == BUILD_DIR \o <<STATIC_DIR[Len(STATIC_DIR)]>>
                         \o SubSeq(p, Len(STATIC_DIR) + 1, Len(p))
    IN  [q \in {target(p) : p \in src} |->
            LET p == CHOOSE x \in src : target(x) = q
            IN  File(f[p].data, f[p].mtime, g)]

\* f overwritten by the files of w
PutAll(f, w) ==
    [q \in DOMAIN f \cup DOMAIN w |-> IF q \in DOMAIN w THEN w[q] ELSE f[q]]

\* Mutant: the existence check dropped
PagesDirExists_Unchecked(d) == TRUE

\* PAGES_DIR.exists()
PagesDirExists(d) == PAGES_DIR \in d

\* PAGES_DIR.rglob("*.html")
PageFiles(f) ==
    {p \in FilesUnder(f, PAGES_DIR) : EndsWith(p[Len(p)], T_dot_html)}

\* discover_pages, when it does not raise
discover_pages(f) == Sorted(PageFiles(f))

\* page.relative_to(PAGES_DIR)
RelPath(page) == SubSeq(page, Len(PAGES_DIR) + 1, Len(page))

\* page_slug
page_slug(rel) ==
    Join(<<"-">>, [i \in 1..Len(rel) |-> IF i = Len(rel) THEN Stem(rel[i]) ELSE rel[i]])

\* page_label
page_label(slug) == StrTitle(Replace(slug, "-", " "))

\* re.search(...).group(1): the text between the first title tag that an
\* endblock tag follows and the first endblock tag after it; None without match
TitleBlock(content) ==
    LET opens == {i \in 1..Len(content) :
                     content[i] = BLOCK_TITLE
                     /\ \E j \in (i + 1)..Len(content) : content[j] = ENDBLOCK}
    IN  IF opens = {} THEN None
        ELSE LET i == CHOOSE x \in opens : \A y \in opens : x <= y
                 j == CHOOSE x \in (i + 1)..Len(content) :
                          content[x] = ENDBLOCK
                          /\ \A y \in (i + 1)..(x - 1) : content[y] # ENDBLOCK
             IN  SubSeq(content, i + 1, j - 1)

\* extract_title_label
extract_title_label(content) ==
    LET m == TitleBlock(content)
    IN  IF m = None THEN None
        ELSE IF Strip(m) = <<>> THEN None
        ELSE Strip(BeforeFirstDash(Strip(m)))

\* render_pages, line 95: the pages left out of the navigation
IsIndexPage(rel) == rel[Len(rel)] = T_index_html

\* Mutant: "is not None" in place of "or"
BaseLabel_NoFallback(content, slug) ==
    LET t == extract_title_label(content)
    IN  IF t # None THEN t ELSE page_label(slug)

\* render_pages, line 97
BaseLabel(content, slug) ==
    LET t == extract_title_label(content)
    IN  IF Truthy(t) THEN t ELSE page_label(slug)

\* render_pages, lines 93-107: the navigation entry of one page
NavLink(f, page) ==
    LET rel == RelPath(page)
        slug == page_slug(rel)
        label == BaseLabel(f[page].data.src, slug)
        icon == NavIcon(slug)
    IN  [id |-> slug,
         label |-> IF icon # <<>> THEN icon \o <<" ">> \o label ELSE label,
         href |-> AsPosix(rel)]

\* render_pages, lines 91-107
RECURSIVE NavLinks(_, _)
NavLinks(f, pages) ==
    IF pages = <<>> THEN <<>>
    ELSE IF IsIndexPage(RelPath(pages[1])) THEN NavLinks(f, Tail(pages))
    ELSE <<NavLink(f, pages[1])>> \o NavLinks(f, Tail(pages))

\* Mutant: a stamp that differs from run to run in place of the year
CurrentYear_Stamp == year * 100 + builds

\* datetime.now().year
CurrentYear == year

\* render_pages, lines 109-116 (the constant entries left out)
SharedContext(nav) == [nav_links |-> nav, current_year |-> CurrentYear]

\* template.render(**page_context): the output shows the page's own source, the
\* navigation, the active entry and, when the layout prints it, the year
Render(data, ctx, slug) ==
    [kind |-> "html",
     body |-> data.src,
     nav |-> ctx.nav_links,
     active |-> slug,
     year |-> IF data.year THEN ctx.current_year ELSE 0]

\* render_pages, lines 118-126: the files written, by build number g at time t
RenderedPages(f, pages, nav, g, t) ==
    LET S == Range(pages)
        out(p) == BUILD_DIR \o RelPath(p)
    IN  [q \in {out(p) : p \in S} |->
            LET p == CHOOSE x \in S : out(x) = q
            IN  File(Render(f[p].data, SharedContext(nav), page_slug(RelPath(p))), t, g)]

\* The content of the output directory: relative path -> content
Output(f) ==
    [r \in {SubSeq(p, Len(BUILD_DIR) + 1, Len(p)) : p \in FilesUnder(f, BUILD_DIR)} |->
        f[BUILD_DIR \o r].data]

Running == {"clean", "copy", "render"}

\* A Builder process starts: main, line 130 (load_env changes nothing)
StartBuilder ==
    /\ bpc' = "clean"
    /\ builds' = builds + 1
    /\ exitCode' = 0
    /\ err' = ""
    /\ discovered' = <<>>
    /\ nav_links' = <<>>
    /\ IF wpc = "off"
       THEN /\ sincePrev' = (sinceStart /\ bpc = "exited")
            /\ sinceStart' = TRUE
       ELSE UNCHANGED <<sinceStart, sincePrev>>
    /\ UNCHANGED <<lastRun, prevRun, pairOK>>

\* main, line 131
BClean ==
    /\ bpc = "clean"
    /\ fs' = CleanBuildDirectory(fs)
    /\ dirs' = dirs \cup {BUILD_DIR}
    /\ bpc' = "copy"
    /\ UNCHANGED <<now, year, exitCode, err, discovered, nav_links, builds>>
    /\ UNCHANGED <<watcherVars, touched, trigger, runVars>>

\* main, line 132
BCopy ==
    /\ bpc = "copy"
    /\ fs' = IF STATIC_DIR \in dirs THEN PutAll(fs, CopiedStatic(fs, builds)) ELSE fs
    /\ bpc' = "render"
    /\ UNCHANGED <<dirs, now, year, exitCode, err, discovered, nav_links, builds>>
    /\ UNCHANGED <<watcherVars, touched, trigger, runVars>>

\* The process ends with exit code c; the history is that of the builds run
\* by hand
Finished(c) ==
    /\ bpc' = "exited"
    /\ exitCode' = c
    /\ IF wpc = "off"
       THEN /\ prevRun' = lastRun
            /\ lastRun' = [out |-> Output(fs'), year |-> year, code |-> c]
            /\ pairOK' = sincePrev
       ELSE UNCHANGED <<lastRun, prevRun, pairOK>>
    /\ UNCHANGED <<sinceStart, sincePrev>>

\* main, line 133: render_pages, and the exit of the process
BRender ==
    /\ bpc = "render"
    /\ IF ~PagesDirExists(dirs)
       THEN /\ err' = "FileNotFoundError"
            /\ UNCHANGED <<fs, discovered, nav_links>>
            /\ Finished(1)
       ELSE /\ discovered' = discover_pages(fs)
            /\ IF discovered' = <<>>
               THEN /\ err' = "RuntimeError"
                    /\ UNCHANGED <<fs, nav_links>>
                    /\ Finished(1)
               ELSE /\ nav_links' = NavLinks(fs, discovered')
                    /\ fs' = PutAll(fs, RenderedPages(fs, discovered', nav_links', builds, now))
                    /\ err' = ""
                    /\ Finished(0)
    /\ UNCHANGED <<dirs, now, year, builds, watcherVars, touched, trigger>>

(***************************************************************************)
(* watch_build.py                                                          *)
(***************************************************************************)

\* snapshot: path -> mtime of every file under a watched directory that
\* os.walk reaches without entering a directory named build or __pycache__
snapshot(f, d) ==
    LET seen == {p \in DOMAIN f :
                    /\ \E i \in 1..Len(WATCH_DIRS) :
                          <<WATCH_DIRS[i]>> \in d /\ p[1] = WATCH_DIRS[i]
                    /\ Len(p) > 1
                    /\ \A k \in 2..(Len(p) - 1) : p[k] \notin SKIPPED_DIR_NAMES}
    IN  [p \in seen |-> f[p].mtime]

\* Mutant: only the sets of paths compared
Changed_PathsOnly(current, previous) == DOMAIN current # DOMAIN previous

\* main, line 53
Changed(current, previous) == current # previous

\* run_build, lines 40-43
BuildLog(code) == IF code = 0 THEN "Build completed." ELSE "Build failed."

\* Mutant: subprocess.run(check=True), a failed build raises
AfterRunBuild_Raise(code) == IF code = 0 THEN "sleeping" ELSE "crashed"

\* Mutant: main returns what run_build returned
AfterRunBuild_Return(code) == "returned"

\* main, line 55: where the Watcher is once run_build has returned code
AfterRunBuild(code) == "sleeping"

\* Mutant: the subprocess started and not waited for
WhileBuilding_NoWait == "sleeping"

\* main, lines 54-55 and run_build, lines 37-39: where the Watcher is while
\* subprocess.run has not returned
WhileBuilding == "building"

\* main, lines 48-49
WStart ==
    /\ wpc = "start"
    /\ lastLog' = "Watching."
    /\ prev' = snapshot(fs, dirs)
    /\ wpc' = "sleeping"
    /\ touched' = {}
    /\ UNCHANGED <<fs, dirs, now, year, builderVars, lastExit, trigger, runVars>>

\* main, lines 51-55 up to the start of the subprocess
Poll ==
    /\ wpc = "sleeping"
    /\ touched' = {}
    /\ LET current == snapshot(fs, dirs)
       IN  IF Changed(current, prev)
           THEN /\ prev' = current
                /\ trigger' = touched
                /\ lastLog' = "Running."
                /\ wpc' = WhileBuilding
                /\ StartBuilder
           ELSE UNCHANGED <<prev, lastLog, wpc, builderVars, trigger, runVars>>
    /\ UNCHANGED <<fs, dirs, now, year, lastExit>>

\* run_build, lines 39-44: subprocess.run returns
BuildReturn ==
    /\ wpc = "building"
    /\ bpc = "exited"
    /\ lastLog' = BuildLog(exitCode)
    /\ lastExit' = exitCode
    /\ wpc' = AfterRunBuild(exitCode)
    /\ UNCHANGED <<fs, dirs, now, year, builderVars, prev, touched, trigger, runVars>>

\* lines 61-64: KeyboardInterrupt, wherever main is; subprocess.run kills a
\* child that is still running before the exception leaves it
Interrupt ==
    /\ wpc \in {"start", "sleeping", "building"}
    /\ wpc' = "stopped"
    /\ lastLog' = "Stopped."
    /\ bpc' = IF bpc \in Running THEN "killed" ELSE bpc
    /\ UNCHANGED <<fs, dirs, now, year, exitCode, err, discovered, nav_links, builds>>
    /\ UNCHANGED <<prev, lastExit, touched, trigger, runVars>>

(***************************************************************************)
(* The environment: the user's edits and the calendar                      *)
(***************************************************************************)

MaxClock == 2
MaxBuilds == 2

\* The record of an edit of path p: mid tells whether a build was running
Edit(p) == [path |-> p, mid |-> bpc \in Running]

\* An edit of p spoils the comparison of successive builds when p is an input,
\* or when p is put into the output while a build is writing it
Taints(p) == IF Under(BUILD_DIR, p) THEN bpc \in Running ELSE TRUE

Tainted(p) ==
    /\ sinceStart' = (sinceStart /\ ~Taints(p))
    /\ sincePrev' = (sincePrev /\ ~Taints(p))
    /\ UNCHANGED <<lastRun, prevRun, pairOK>>

\* The edits a running Watcher has yet to see
Noted(S) == IF wpc = "off" THEN touched ELSE touched \cup S

\* The user saves file p with content data
WriteFile(p, data) ==
    /\ now < MaxClock
    /\ now' = now + 1
    /\ fs' = Put(fs, p, File(data, now + 1, IF Under(BUILD_DIR, p) THEN builds ELSE 0))
    /\ dirs' = dirs \cup {<<p[1]>>}
    /\ touched' = Noted({Edit(p)})
    /\ Tainted(p)
    /\ UNCHANGED <<year, builderVars, watcherVars, trigger>>

\* The user removes file p
DeleteFile(p) ==
    /\ p \in DOMAIN fs
    /\ fs' = Without(fs, {p})
    /\ touched' = Noted({Edit(p)})
    /\ Tainted(p)
    /\ UNCHANGED <<dirs, now, year, builderVars, watcherVars, trigger>>

\* The user removes the pages directory
RemovePagesDir ==
    /\ PAGES_DIR \in dirs
    /\ fs' = Without(fs, FilesUnder(fs, PAGES_DIR))
    /\ dirs' = dirs \ {PAGES_DIR}
    /\ touched' = Noted({Edit(p) : p \in FilesUnder(fs, PAGES_DIR)})
    /\ Tainted(PAGES_DIR)
    /\ UNCHANGED <<now, year, builderVars, watcherVars, trigger>>

\* New Year's Eve passes
NewYear ==
    /\ year = 2026
    /\ year' = 2027
    /\ UNCHANGED <<fs, dirs, now, builderVars, watcherVars, touched, trigger, runVars>>

\* The user runs build.py by hand
RunBuilder ==
    /\ wpc = "off"
    /\ bpc \in {"idle", "exited"}
    /\ builds < MaxBuilds
    /\ StartBuilder
    /\ UNCHANGED <<fs, dirs, now, year, watcherVars, touched, trigger>>

(***************************************************************************)
(* Page sources and sites                                                  *)
(***************************************************************************)

S_plain == <<"h", "i">>
S_about == <<BLOCK_TITLE, "A", "b", "o", "u", "t", " ", "-", " ", "H", "o", "m", "e", ENDBLOCK>>
S_dash == <<BLOCK_TITLE, "-", " ", "H", "o", "m", "e", ENDBLOCK>>
S_blank == <<BLOCK_TITLE, " ", "\n", ENDBLOCK>>
S_open == <<BLOCK_TITLE, "M", "e">>
S_two == <<"\n", BLOCK_TITLE, " ", "M", "e", "-", "t", "o", "o", " ", ENDBLOCK,
           BLOCK_TITLE, "X", ENDBLOCK>>

Sources == {S_plain, S_about, S_dash, S_blank, S_open, S_two}

Page(src, y) == [kind |-> "page", src |-> src, year |-> y]
Asset == [kind |-> "asset"]
Stray == [kind |-> "stray"]

P_index == <<T_pages, T_index_html>>
P_about == <<T_pages, T_about_html>>
P_blog_index == <<T_pages, T_blog, T_index_html>>
P_blog_post == <<T_pages, T_blog, T_post_html>>
P_styles == <<T_static, T_styles_css>>
P_cached == <<T_pages, T_pycache, T_notes_txt>>
P_stray == <<T_build, T_notes_txt>>

PagePaths == {P_index, P_about, P_blog_index, P_blog_post}

\* The file system holding the files of w, all written at time 0
Disk(w) == [p \in DOMAIN w |-> File(w[p], 0, 0)]

InitCommon ==
    /\ now = 0
    /\ year = 2026
    /\ bpc = "idle"
    /\ exitCode = 0
    /\ err = ""
    /\ discovered = <<>>
    /\ nav_links = <<>>
    /\ builds = 0
    /\ prev = <<>>
    /\ lastLog = ""
    /\ lastExit = -1
    /\ touched = {}
    /\ trigger = {}
    /\ sinceStart = FALSE
    /\ sincePrev = FALSE
    /\ lastRun = [out |-> <<>>, year |-> 0, code |-> -1]
    /\ prevRun = [out |-> <<>>, year |-> 0, code |-> -1]
    /\ pairOK = FALSE

(***************************************************************************)
(* Spec: the Watcher, the Builder it starts, and a user editing the site   *)
(***************************************************************************)

\* The site the Watcher starts on, and the files the user saves and removes
WatchedPaths == {P_index, P_styles, P_cached}
EditedPaths == {P_index, P_styles, P_cached}

DataOf(p) ==
    IF p \in PagePaths THEN Page(S_plain, TRUE)
    ELSE IF Under(BUILD_DIR, p) THEN Stray
    ELSE Asset

\* The edits followed are those made once the Watcher has its first snapshot
Watching == wpc \in {"sleeping", "building"}

Init ==
    /\ InitCommon
    /\ wpc = "start"
    /\ fs = Disk([p \in WatchedPaths |-> DataOf(p)])
    /\ dirs = {PAGES_DIR, STATIC_DIR}

Next ==
    \/ WStart
    \/ Poll
    \/ BuildReturn
    \/ Interrupt
    \/ BClean
    \/ BCopy
    \/ BRender
    \/ \E p \in EditedPaths : Watching /\ WriteFile(p, DataOf(p))
    \/ \E p \in EditedPaths : Watching /\ DeleteFile(p)

Spec == Init /\ [][Next]_vars

(***************************************************************************)
(* SpecNav: build.py run by hand on every site of the page universe        *)
(***************************************************************************)

InitNav ==
    /\ InitCommon
    /\ wpc = "off"
    /\ dirs = {PAGES_DIR, STATIC_DIR}
    /\ \E S \in SUBSET PagePaths, src \in Sources, y \in BOOLEAN :
          fs = Disk([p \in S \cup {P_styles} |->
                        IF p \in PagePaths THEN Page(src, y) ELSE Asset])

NextNav ==
    \/ RunBuilder
    \/ BClean
    \/ BCopy
    \/ BRender

SpecNav == InitNav /\ [][NextNav]_vars

(***************************************************************************)
(* SpecBuild: build.py run by hand while the user edits the site           *)
(***************************************************************************)

InputPaths == {P_about, P_styles}

InitBuild ==
    /\ InitCommon
    /\ wpc = "off"
    /\ \E S \in {{}, {P_index}, {P_index, P_about, P_styles}} :
          /\ fs = Disk([p \in S |-> DataOf(p)])
          /\ dirs \in {{<<p[1]>> : p \in S}, {<<p[1]>> : p \in S} \cup {PAGES_DIR}}

NextBuild ==
    \/ RunBuilder
    \/ BClean
    \/ BCopy
    \/ BRender
    \/ \E p \in InputPaths \cup {P_stray} : WriteFile(p, DataOf(p))
    \/ \E p \in InputPaths : DeleteFile(p)
    \/ RemovePagesDir
    \/ NewYear

SpecBuild == InitBuild /\ [][NextBuild]_vars

(***************************************************************************)
(* Properties of the Builder                                               *)
(***************************************************************************)

\* The entry-point page: the one the fixed home link index.html leads to
EntryPoint == PAGES_DIR \o <<T_index_html>>

Increasing(ps) == \A i, j \in 1..Len(ps) : i < j => PathLess(ps[i], ps[j])

Built == bpc = "exited" /\ exitCode = 0

\* The page a navigation entry links to
PageOf(link) == CHOOSE p \in PageFiles(fs) : AsPosix(RelPath(p)) = link.href

\* The trimmed text before the first dash of the title block, empty without one
Override(content) ==
    IF TitleBlock(content) = None THEN <<>>
    ELSE Strip(BeforeFirstDash(Strip(TitleBlock(content))))

\* The page source has a title block with non-empty content
HasTitle(content) ==
    TitleBlock(content) # None /\ Strip(TitleBlock(content)) # <<>>

\* C1: after a successful build the navigation list holds every discovered
\* page except the entry-point page pages/index.html, each once, in the sorted
\* order of discovery.
C1_NavExcludesExactlyEntryPoint ==
    Built =>
        LET listed == SelectSeq(discovered, LAMBDA p : p # EntryPoint)
        IN  /\ Range(discovered) = PageFiles(fs)
            /\ Increasing(discovered)
            /\ Len(nav_links) = Len(listed)
            /\ \A i \in 1..Len(listed) :
                  nav_links[i].href = AsPosix(RelPath(listed[i]))

\* C8 as stated: the label of every navigation entry is the title-block
\* override when the page has a title block with non-empty content, the
\* default label of the slug otherwise.
C8_LabelIsOverrideOrDefault ==
    Built =>
        \A i \in 1..Len(nav_links) :
            LET link == nav_links[i]
                src == fs[PageOf(link)].data.src
            IN  link.label =
                    IF HasTitle(src) THEN Override(src) ELSE page_label(link.id)

\* C8 as amended: the label of every navigation entry, after the icon prefix
\* of its slug if the icon table has one, is the title-block override when
\* that override is not empty, the default label of the slug otherwise.
C8_LabelAfterIconIsNonEmptyOverrideOrDefault ==
    Built =>
        \A i \in 1..Len(nav_links) :
            LET link == nav_links[i]
                src == fs[PageOf(link)].data.src
                base == IF Override(src) # <<>> THEN Override(src)
                        ELSE page_label(link.id)
            IN  link.label =
                    IF link.id \in DOMAIN NAV_ICONS
                    THEN NAV_ICONS[link.id] \o <<" ">> \o base
                    ELSE base

\* A page without icon whose title block "About - Home" gave the label About
C8_Witness ==
    /\ Built
    /\ \E i \in 1..Len(nav_links) :
          /\ fs[PageOf(nav_links[i])].data.src = S_about
          /\ nav_links[i].id \notin DOMAIN NAV_ICONS
          /\ nav_links[i].label = <<"A", "b", "o", "u", "t">>

\* C5: once a build has cleaned the output directory, and when it has
\* ended, every file of the output directory was written after that build
\* started: nothing that was there before is left.
C5_OutputHoldsNothingOlderThanTheBuild ==
    bpc \in {"copy", "render", "exited"} =>
        \A p \in FilesUnder(fs, BUILD_DIR) : fs[p].gen = builds

\* A stray file that was in the output when the last build started is gone
C5_Witness ==
    /\ bpc = "exited"
    /\ <<T_notes_txt>> \in DOMAIN prevRun.out
    /\ <<T_notes_txt>> \notin DOMAIN Output(fs)

NoPageRendered(f) == \A p \in FilesUnder(f, BUILD_DIR) : f[p].data.kind # "html"

\* C6: when render_pages runs while the pages root is missing the build ends
\* with FileNotFoundError, and while the pages root holds no page file with
\* RuntimeError; both times the exit code is not 0 and the output holds no
\* rendered page.
C6_MissingOrEmptyPagesAbort ==
    [][(bpc = "render" /\ bpc' = "exited") =>
          /\ PAGES_DIR \notin dirs =>
                err' = "FileNotFoundError" /\ exitCode' # 0 /\ NoPageRendered(fs')
          /\ (PAGES_DIR \in dirs /\ PageFiles(fs) = {}) =>
                err' = "RuntimeError" /\ exitCode' # 0 /\ NoPageRendered(fs')]_vars

\* A build that failed for the missing pages root after one that failed too
C6_Witness ==
    /\ bpc = "exited"
    /\ err = "FileNotFoundError"
    /\ PAGES_DIR \notin dirs
    /\ prevRun.code = 1
    /\ lastRun.code = 1

\* C7 as stated: two builds in succession on unchanged inputs leave the same
\* output directory content.
C7_RebuildIsIdempotent == pairOK => lastRun.out = prevRun.out

\* C7 as amended: two builds in succession on unchanged inputs and in the
\* same calendar year leave the same output directory content.
C7_RebuildInSameYearIsIdempotent ==
    (pairOK /\ lastRun.year = prevRun.year) =>
        lastRun.out = prevRun.out /\ lastRun.code = prevRun.code

\* Two successful builds in succession on unchanged inputs, in the same year
C7_Witness ==
    /\ pairOK
    /\ lastRun.year = prevRun.year
    /\ lastRun.code = 0
    /\ DOMAIN lastRun.out # {}

(***************************************************************************)
(* Properties of the Watcher                                               *)
(***************************************************************************)

\* p lies under a watched directory
UnderWatched(p) == Len(p) > 1 /\ p[1] \in Range(WATCH_DIRS)

\* p lies under a watched directory, outside subdirectories named build or
\* __pycache__
Visible(p) ==
    UnderWatched(p) /\ \A k \in 2..(Len(p) - 1) : p[k] \notin SKIPPED_DIR_NAMES

\* A poll: the Watcher wakes, takes a snapshot and compares it
PollStep ==
    /\ wpc = "sleeping"
    /\ wpc' \in {"sleeping", "building"}
    /\ touched' = {}
    /\ UNCHANGED <<fs, dirs, now>>

\* The step starts one Builder process
Spawned == wpc' = "building" /\ bpc' = "clean" /\ builds' = builds + 1

\* The files written since the last snapshot that exist now
Retimed == {e.path : e \in touched} \cap DOMAIN fs

\* The edits since the last snapshot that left a trace the snapshot covers
SeenEdits ==
    {e \in touched :
        Visible(e.path) /\ (e.path \in DOMAIN fs \/ e.path \in DOMAIN prev)}

\* C2 as stated: start-up builds nothing; a poll builds once when a file
\* under a watched directory got a new modification time since the last
\* snapshot, and builds nothing when nothing was edited since.
C2_TouchUnderWatchedDirRebuildsOnce ==
    [][/\ (wpc = "start" /\ wpc' = "sleeping") => builds' = builds
       /\ (PollStep /\ \E p \in Retimed : UnderWatched(p)) => Spawned
       /\ (PollStep /\ touched = {}) => ~Spawned]_vars

\* C2 as amended: the same, for a file under a watched directory that is
\* outside subdirectories named build or __pycache__.
C2_TouchOfVisibleFileRebuildsOnce ==
    [][/\ (wpc = "start" /\ wpc' = "sleeping") => builds' = builds
       /\ (PollStep /\ \E p \in Retimed : Visible(p)) => Spawned
       /\ (PollStep /\ touched = {}) => ~Spawned]_vars

\* The first build, started for the new modification time of pages/index.html
C2_Witness ==
    /\ wpc = "building"
    /\ builds = 1
    /\ P_index \in DOMAIN prev
    /\ prev[P_index] > 0
    /\ [path |-> P_index, mid |-> FALSE] \in trigger

\* C3: when a build has exited with a code other than 0, run_build logs the
\* failure and the Watcher sleeps again; and once a build has returned,
\* whatever its code, a poll that follows an edit starts a build.
C3_FailedBuildKeepsWatching ==
    [][/\ (/\ wpc = "building" /\ bpc = "exited" /\ exitCode # 0
           /\ wpc' \notin {"building", "stopped"}) =>
             wpc' = "sleeping" /\ lastLog' = "Build failed." /\ lastExit' = exitCode
       /\ (PollStep /\ lastExit # -1 /\ SeenEdits # {}) => Spawned]_vars

\* A build started after a failed one
C3_Witness == wpc = "building" /\ lastExit = 1 /\ lastLog = "Running."

\* C4: a Builder process runs only while the Watcher is blocked in run_build,
\* where it polls nothing and starts nothing; only an interrupt ends a
\* running build early; and the poll after an edit made during a build
\* comes after that build's exit, and starts one build.
C4_OneBuildAtATime ==
    [][/\ bpc \in Running =>
             /\ wpc = "building"
             /\ builds' = builds
             /\ prev' = prev
             /\ bpc' \notin Running \cup {"exited"} => wpc' = "stopped"
       /\ (PollStep /\ \E e \in SeenEdits : e.mid) =>
             Spawned /\ bpc = "exited"]_vars

\* A build started for an edit made while the build before it was running
C4_Witness ==
    /\ wpc = "building"
    /\ builds = 2
    /\ \E e \in trigger : e.mid

\* C9: the Watcher is starting, sleeping, building or stopped by an
\* interrupt; stopped, its last line is the stop message; sleeping it can
\* poll, building its Builder is running or run_build can return, and in
\* both an interrupt can stop it.
C9_OnlyInterruptStops ==
    /\ wpc \in {"start", "sleeping", "building", "stopped"}
    /\ wpc = "stopped" => lastLog = "Stopped."
    /\ wpc = "sleeping" => ENABLED Poll
    /\ wpc = "building" => bpc \in Running \/ ENABLED BuildReturn
    /\ wpc \in {"sleeping", "building"} => ENABLED Interrupt

\* The Watcher interrupted while a build was running, after a failed build
C9_Witness ==
    /\ wpc = "stopped"
    /\ bpc = "killed"
    /\ lastExit = 1
    /\ lastLog = "Stopped."

\* C10: while nothing was edited since the Watcher's last snapshot, the
\* snapshot a poll would take equals the recorded one and every rendered
\* page lies under the output directory, whatever the Builder has done.
C10_BuildTriggersNoBuild ==
    (wpc \in {"sleeping", "building"} /\ touched = {}) =>
        /\ snapshot(fs, dirs) = prev
        /\ \A p \in DOMAIN fs : fs[p].data.kind = "html" => Under(BUILD_DIR, p)

\* The Watcher asleep after a build that wrote its output, nothing edited since
C10_Witness ==
    /\ wpc = "sleeping"
    /\ touched = {}
    /\ lastExit = 0
    /\ FilesUnder(fs, BUILD_DIR) # {}

====
